---------------------------- MODULE Spec2Model ----------------------------
(***************************************************************************)
(* Model of the two DICOM scripts:                                         *)
(*   dicom_scout_modulation_visualizer.py  (is_scout, extract_dicom_data,  *)
(*       calculate_scout_positions, plot_scoutview_with_modulation, main)  *)
(*   dicom_ct_expo_preprocessor.py         (is_dicom_file,                 *)
(*       extract_dicom_info)                                               *)
(*                                                                         *)
(* Conventions.  A DICOM attribute that may be missing from a dataset is   *)
(* a sequence of length 0 (missing) or 1 (present, the value is its first  *)
(* element).  Python strings are sequences of one-character strings, so    *)
(* that lower(), the `in` test and endswith() are computed, not assumed.   *)
(* Positions, thicknesses and exposures are Python floats; the model       *)
(* draws them from small integers, which binary64 represents exactly and   *)
(* on which +, - and * are exact.  Division is not exact: it is modelled   *)
(* bit by bit further down (calculate_scout_positions).                    *)
(***************************************************************************)
EXTENDS Integers, Sequences, FiniteSets, Bags, TLC

VARIABLES
    \* extract_dicom_data
    dicom_files,        \* the argument: the datasets behind the file paths
    idx,                \* number of loop iterations begun
    data,               \* the local list of (position, mAs) pairs
    current_position,   \* the local accumulator, <<>> is None
    status,             \* "idle" | "running" | "returned" | "raised"
    result,             \* <<>> until the function returns, then <<profile>>
    \* calculate_scout_positions
    scout_ds,           \* the argument
    align_status,       \* "idle" | "called" | "returned" | the exception raised
    geometry,           \* <<>> or <<[z_start, z_end, z_spacing_corrected]>>
    \* extract_dicom_info
    walk,               \* the files os.walk yields, in traversal order
    pos,                \* number of files visited
    dicom_info_list,    \* the local list of rows
    console,            \* what was printed, in order
    output_csv,         \* <<>> (no file) or <<rows written>>
    collect_status,     \* "idle" | "walking" | "done"
    \* main
    dicom_folder,       \* <<>> (dialog cancelled) or <<directory listing>>
    pc,                 \* "idle" | "start" | "scouts" | "extract" | "plot" | "done" | "failed"
    main_files,         \* main's dicom_files
    scout_files,        \* main's scout_files
    scout_dses,         \* main's scout_dses
    intensity_data,     \* main's intensity_data
    plot_i,             \* number of scouts handed to the plot function
    rendered,           \* number of figures created and shown
    error               \* <<>> or <<name of the uncaught exception>>

buildVars   == <<dicom_files, idx, data, current_position, status, result>>
alignVars   == <<scout_ds, align_status, geometry>>
collectVars == <<walk, pos, dicom_info_list, console, output_csv, collect_status>>
mainVars    == <<dicom_folder, pc, main_files, scout_files, scout_dses,
                 intensity_data, plot_i, rendered, error>>
vars        == <<buildVars, alignVars, collectVars, mainVars>>

---------------------------------------------------------------------------
(* Bounds of the model *)

MaxFiles == 3

---------------------------------------------------------------------------
(* Python str: lower(), `in`, endswith() *)

UpperLetters ==
    <<"A","B","C","D","E","F","G","H","I","J","K","L","M",
      "N","O","P","Q","R","S","T","U","V","W","X","Y","Z">>

LowerLetters ==
    <<"a","b","c","d","e","f","g","h","i","j","k","l","m",
      "n","o","p","q","r","s","t","u","v","w","x","y","z">>

lower_char(c) ==
    IF \E i \in 1..Len(UpperLetters) : UpperLetters[i] = c
    THEN LowerLetters[CHOOSE i \in 1..Len(UpperLetters) : UpperLetters[i] = c]
    ELSE c

lower(s) == [i \in 1..Len(s) |-> lower_char(s[i])]

contains(s, m) ==
    \E i \in 1..(Len(s) - Len(m) + 1) : SubSeq(s, i, i + Len(m) - 1) = m

endswith(s, m) ==
    Len(s) >= Len(m) /\ SubSeq(s, Len(s) - Len(m) + 1, Len(s)) = m

ScoutFaceMarker == <<"s","c","o","u","t"," ","f","a","c","e">>
ProfilMarker    == <<"p","r","o","f","i","l">>
DcmExtension    == <<".","d","c","m">>

---------------------------------------------------------------------------
(* Datasets *)

None == <<>>
Some(v) == <<v>>
Has(f) == Len(f) = 1
Val(f) == f[1]

DescScoutFace == <<"S","C","O","U","T"," ","F","A","C","E">>
DescProfil    == <<"T","o","p","o"," ","P","r","o","f","i","l">>
DescHelical   == <<"H","e","l","i","c","a","l">>

\* Readable: pydicom.dcmread succeeds.  ImagePositionZ is
\* ImagePositionPatient[2].  PixelData: ds.pixel_array can be built.
\* PixelSpacingCol is PixelSpacing[1].
Dataset(readable, desc, thick, spacing, z, current, rev, rows, pixels, pxcol) ==
    [Readable |-> readable, SeriesDescription |-> desc, SliceThickness |-> thick,
     SpacingBetweenSlices |-> spacing, ImagePositionZ |-> z,
     XRayTubeCurrent |-> current, RevolutionTime |-> rev, Rows |-> rows,
     PixelData |-> pixels, PixelSpacingCol |-> pxcol]

SliceDs(desc, thick, spacing, z, current, rev) ==
    Dataset(TRUE, desc, thick, spacing, z, current, rev, None, FALSE, None)

CorruptDs == Dataset(FALSE, None, None, None, None, None, None, None, FALSE, None)

\* The datasets the builder is run on: slices with positive, zero and negative
\* thickness, with and without SpacingBetweenSlices, datasets without a
\* SeriesDescription, slices lacking a required attribute, scout views with
\* and without the slice attributes, and a file pydicom cannot read.
BuildDatasets ==
    { SliceDs(Some(DescHelical), Some(2),  None,    Some(100), Some(200), Some(1)),
      SliceDs(Some(DescHelical), Some(2),  Some(1), Some(100), Some(150), Some(2)),
      SliceDs(Some(DescHelical), Some(0),  None,    Some(98),  Some(150), Some(1)),
      SliceDs(Some(DescHelical), Some(-2), Some(5), Some(100), Some(120), Some(1)),
      SliceDs(None,              Some(2),  None,    Some(100), Some(100), Some(1)),
      SliceDs(None,              None,     None,    None,      None,      None),
      SliceDs(Some(DescHelical), None,     Some(1), Some(100), Some(200), Some(1)),
      SliceDs(Some(DescHelical), Some(2),  None,    None,      Some(200), Some(1)),
      SliceDs(Some(DescHelical), Some(2),  None,    Some(100), None,      Some(1)),
      Dataset(TRUE, Some(DescScoutFace), Some(400), None, Some(50), None, None,
              Some(200), TRUE, Some(1)),
      Dataset(TRUE, Some(DescProfil), None, None, None, None, None, Some(200), TRUE,
              Some(1)),
      CorruptDs }

SeqsUpTo(S, n) == UNION { [1..k -> S] : k \in 0..n }

---------------------------------------------------------------------------
(* is_scout *)

\* a dataset without SeriesDescription taken for a scout
is_scout_when_undescribed(ds) ==
    IF ~Has(ds.SeriesDescription)
    THEN TRUE
    ELSE LET series_description == lower(Val(ds.SeriesDescription))
         IN  contains(series_description, ScoutFaceMarker)
             \/ contains(series_description, ProfilMarker)

\* the comparison made without lower()
is_scout_case_sensitive(ds) ==
    IF ~Has(ds.SeriesDescription)
    THEN FALSE
    ELSE LET series_description == Val(ds.SeriesDescription)
         IN  contains(series_description, ScoutFaceMarker)
             \/ contains(series_description, ProfilMarker)

is_scout(ds) ==
    IF ~Has(ds.SeriesDescription)
    THEN FALSE                                   \* except AttributeError
    ELSE LET series_description == lower(Val(ds.SeriesDescription))
         IN  contains(series_description, ScoutFaceMarker)
             \/ contains(series_description, ProfilMarker)

---------------------------------------------------------------------------
(* extract_dicom_data *)

\* sorted(data, key=lambda x: x[0]): a stable sort, ascending by position.
RECURSIVE insert_sorted(_, _)
insert_sorted(s, x) ==
    IF s = <<>> THEN <<x>>
    ELSE IF s[Len(s)][1] <= x[1] THEN Append(s, x)
    ELSE Append(insert_sorted(SubSeq(s, 1, Len(s) - 1), x), s[Len(s)])

RECURSIVE sorted_by_position(_)
sorted_by_position(s) ==
    IF s = <<>> THEN <<>>
    ELSE insert_sorted(sorted_by_position(SubSeq(s, 1, Len(s) - 1)), s[Len(s)])

\* the slice [::-1]
reversed(s) == [i \in 1..Len(s) |-> s[Len(s) + 1 - i]]

\* sorted(data, key=lambda x: x[0], reverse=True): a stable sort, descending
sort_reverse_true(s) ==
    LET negated == [i \in 1..Len(s) |-> <<-s[i][1], s[i][2]>>]
        ordered == sorted_by_position(negated)
    IN  [i \in 1..Len(s) |-> <<-ordered[i][1], ordered[i][2]>>]

\* positions and exposures sorted apart from each other, then zipped
sort_columns_apart(s) ==
    LET byPosition == reversed(sorted_by_position(s))
        byExposure == reversed(sorted_by_position(
                          [i \in 1..Len(s) |-> <<s[i][2], s[i][1]>>]))
    IN  [i \in 1..Len(s) |-> <<byPosition[i][1], byExposure[i][1]>>]

\* line 100: sorted(data, key=lambda x: x[0])[::-1]
sort_descending(s) == reversed(sorted_by_position(s))

\* line 89: float(ds.SliceThickness); None stands for the AttributeError
read_thickness_default_zero(ds) ==
    IF Has(ds.SliceThickness) THEN ds.SliceThickness ELSE Some(0)

read_thickness(ds) == ds.SliceThickness

\* lines 92-95: the accumulator after this slice
next_position_first_decremented(cur, ds, slice_thickness, spacing_between_slices) ==
    IF cur = None THEN Val(ds.ImagePositionZ) - slice_thickness
    ELSE Val(cur) - slice_thickness

next_position_by_spacing(cur, ds, slice_thickness, spacing_between_slices) ==
    IF cur = None THEN Val(ds.ImagePositionZ)
    ELSE Val(cur) - spacing_between_slices

next_position(cur, ds, slice_thickness, spacing_between_slices) ==
    IF cur = None THEN Val(ds.ImagePositionZ)
    ELSE Val(cur) - slice_thickness

\* Lines 84-98, one iteration of the loop on dataset ds, from the locals
\* (d, cur).  raised is TRUE when the iteration ends in an uncaught exception.
LoopBody(d, cur, ds) ==
    IF ~ds.Readable                                              \* line 84
    THEN [data |-> d, current_position |-> cur, raised |-> TRUE]
    ELSE IF is_scout(ds)                                         \* lines 86-87
    THEN [data |-> d, current_position |-> cur, raised |-> FALSE]
    ELSE IF read_thickness(ds) = None                            \* line 89
    THEN [data |-> d, current_position |-> cur, raised |-> TRUE]
    ELSE
      LET slice_thickness == Val(read_thickness(ds))
          spacing_between_slices ==                              \* line 90
              IF Has(ds.SpacingBetweenSlices) THEN Val(ds.SpacingBetweenSlices)
              ELSE slice_thickness
      IN  IF cur = None /\ ~Has(ds.ImagePositionZ)               \* line 93
          THEN [data |-> d, current_position |-> cur, raised |-> TRUE]
          ELSE
            LET new_position ==
                    next_position(cur, ds, slice_thickness, spacing_between_slices)
            IN  IF ~Has(ds.XRayTubeCurrent) \/ ~Has(ds.RevolutionTime)   \* line 97
                THEN [data |-> d, current_position |-> Some(new_position),
                      raised |-> TRUE]
                ELSE
                  LET mAs == Val(ds.XRayTubeCurrent) * Val(ds.RevolutionTime)
                  IN  [data |-> Append(d, <<new_position, mAs>>),        \* line 98
                       current_position |-> Some(new_position),
                       raised |-> FALSE]

\* The whole function as one value: <<profile>> when it returns, <<>> when
\* it raises.
RECURSIVE run_loop(_, _, _, _)
run_loop(files, i, d, cur) ==
    IF i > Len(files) THEN Some(sort_descending(d))
    ELSE LET st == LoopBody(d, cur, files[i])
         IN  IF st.raised THEN None
             ELSE run_loop(files, i + 1, st.data, st.current_position)

extract_dicom_data(files) == run_loop(files, 1, <<>>, None)

BuildIdle ==
    /\ dicom_files = <<>>
    /\ idx = 0
    /\ data = <<>>
    /\ current_position = None
    /\ status = "idle"
    /\ result = None

BuildInit ==
    /\ dicom_files \in SeqsUpTo(BuildDatasets, MaxFiles)
    /\ idx = 0
    /\ data = <<>>
    /\ current_position = None
    /\ status = "running"
    /\ result = None

\* One iteration of `for file in dicom_files` that completes.
Iterate ==
    /\ status = "running"
    /\ idx < Len(dicom_files)
    /\ LET st == LoopBody(data, current_position, dicom_files[idx + 1])
       IN  /\ ~st.raised
           /\ data' = st.data
           /\ current_position' = st.current_position
    /\ idx' = idx + 1
    /\ UNCHANGED <<dicom_files, status, result>>
    /\ UNCHANGED <<alignVars, collectVars, mainVars>>

\* One iteration that ends in an uncaught exception: the call ends there.
Raise ==
    /\ status = "running"
    /\ idx < Len(dicom_files)
    /\ LET st == LoopBody(data, current_position, dicom_files[idx + 1])
       IN  /\ st.raised
           /\ data' = st.data
           /\ current_position' = st.current_position
    /\ idx' = idx + 1
    /\ status' = "raised"
    /\ UNCHANGED <<dicom_files, result>>
    /\ UNCHANGED <<alignVars, collectVars, mainVars>>

\* The loop is exhausted: line 100.
Return ==
    /\ status = "running"
    /\ idx = Len(dicom_files)
    /\ result' = Some(sort_descending(data))
    /\ status' = "returned"
    /\ UNCHANGED <<dicom_files, idx, data, current_position>>
    /\ UNCHANGED <<alignVars, collectVars, mainVars>>

---------------------------------------------------------------------------
(* Python float (IEEE-754 binary64) for calculate_scout_positions           *)
(*                                                                         *)
(* A float is [s, m, e]: zero is [s |-> 1, m |-> <<>>, e |-> 0]; any other   *)
(* value is s * m * 2^e with s in {1, -1} and m a sequence of MantissaBits *)
(* bits, most significant first, m[1] = 1.  The operands of the model are  *)
(* integers below 2^MantissaBits, so overflow, underflow and subnormals do *)
(* not arise.  Bit sequences stand for the integers that do not fit TLC's  *)
(* 32-bit arithmetic.                                                      *)

MantissaBits == 53

abs(n) == IF n < 0 THEN -n ELSE n
sign(n) == IF n < 0 THEN -1 ELSE 1
zeros(n) == [i \in 1..n |-> 0]

RECURSIVE pow2(_)
pow2(n) == IF n = 0 THEN 1 ELSE 2 * pow2(n - 1)

\* binary digits of n >= 0, most significant first, no leading zero
RECURSIVE to_bits(_)
to_bits(n) == IF n = 0 THEN <<>> ELSE Append(to_bits(n \div 2), n % 2)

\* the k binary digits of n < 2^k, leading zeros kept
fixed_bits(n, k) == [j \in 1..k |-> (n \div pow2(k - j)) % 2]

\* the integer a short bit sequence stands for
RECURSIVE bits_value(_)
bits_value(b) ==
    IF b = <<>> THEN 0 ELSE 2 * bits_value(SubSeq(b, 1, Len(b) - 1)) + b[Len(b)]

\* b without its leading zeros
strip(b) ==
    IF \A i \in 1..Len(b) : b[i] = 0 THEN <<>>
    ELSE SubSeq(b, CHOOSE i \in 1..Len(b) : b[i] = 1 /\ \A j \in 1..(i - 1) : b[j] = 0,
                Len(b))

\* b + 1
inc_bits(b) ==
    IF \A i \in 1..Len(b) : b[i] = 1 THEN <<1>> \o zeros(Len(b))
    ELSE LET p == CHOOSE i \in 1..Len(b) : b[i] = 0 /\ \A j \in (i + 1)..Len(b) : b[j] = 1
         IN  [i \in 1..Len(b) |-> IF i < p THEN b[i] ELSE IF i = p THEN 1 ELSE 0]

\* A long integer is also handled as limbs: digits in base LimbBase, most
\* significant first.
LimbBits == 13
LimbBase == pow2(LimbBits)

bits_to_limbs(b) ==
    LET n      == ((Len(b) + LimbBits) - 1) \div LimbBits
        padded == zeros(n * LimbBits - Len(b)) \o b
    IN  [i \in 1..n |-> bits_value(SubSeq(padded, ((i - 1) * LimbBits) + 1, i * LimbBits))]

limbs_to_bits(l) ==
    strip([k \in 1..(Len(l) * LimbBits) |->
              fixed_bits(l[((k - 1) \div LimbBits) + 1], LimbBits)[((k - 1) % LimbBits) + 1]])

\* l * r + carry for a small integer r >= 0, exactly
RECURSIVE limbs_mul(_, _, _)
limbs_mul(l, r, carry) ==
    IF l = <<>> THEN (IF carry = 0 THEN <<>> ELSE <<carry>>)
    ELSE LET digit == l[Len(l)] * r + carry
         IN  Append(limbs_mul(SubSeq(l, 1, Len(l) - 1), r, digit \div LimbBase),
                    digit % LimbBase)

\* b * r for a small integer r >= 0, exactly
mul_bits(b, r) == limbs_to_bits(limbs_mul(bits_to_limbs(b), r, 0))

\* round to nearest, ties to even: the float s * b * 2^e for a bit sequence b
\* with b[1] = 1
round_bits(s, b, e) ==
    IF Len(b) <= MantissaBits
    THEN [s |-> s, m |-> b \o zeros(MantissaBits - Len(b)),
          e |-> e - (MantissaBits - Len(b))]
    ELSE LET kept   == SubSeq(b, 1, MantissaBits)
             guard  == b[MantissaBits + 1]
             sticky == \E i \in (MantissaBits + 2)..Len(b) : b[i] = 1
             up     == guard = 1 /\ (sticky \/ kept[MantissaBits] = 1)
             m1     == IF up THEN inc_bits(kept) ELSE kept
             e1     == e + (Len(b) - MantissaBits)
         IN  IF Len(m1) > MantissaBits
             THEN [s |-> s, m |-> SubSeq(m1, 1, MantissaBits), e |-> e1 + 1]
             ELSE [s |-> s, m |-> m1, e |-> e1]

FloatZero == [s |-> 1, m |-> <<>>, e |-> 0]

\* float(n) for an integer n
from_int(n) == IF n = 0 THEN FloatZero ELSE round_bits(sign(n), to_bits(abs(n)), 0)

\* 2^n mod den, by repeated squaring
RECURSIVE pow2_mod(_, _)
pow2_mod(n, den) ==
    IF n = 0 THEN 1 % den
    ELSE LET h == pow2_mod(n \div 2, den)
         IN  (((h * h) % den) * (IF n % 2 = 1 THEN 2 ELSE 1)) % den

\* long division of rem/den (rem < den): the remainder left after i quotient
\* bits is (rem * 2^i) mod den, and quotient bit i is the integer part of
\* twice the remainder before it over den
div_rem(rem, den, i) == (rem * pow2_mod(i, den)) % den
div_bit(rem, den, i) == (2 * div_rem(rem, den, i - 1)) \div den

\* a / b for integers a and b > 0, as binary64 computes it: the quotient
\* rounded to nearest, ties to even
float_div(a, b) ==
    IF a = 0 THEN FloatZero
    ELSE
      LET A  == abs(a)
          \* A / b = (num / den) * 2^(dn - up) with 1 <= num / den < 2
          up == CHOOSE k \in 0..16 : A * pow2(k) >= b /\ (k = 0 \/ A * pow2(k - 1) < b)
          dn == CHOOSE j \in 0..16 : b * pow2(j) <= A * pow2(up)
                                     /\ b * pow2(j + 1) > A * pow2(up)
          num == A * pow2(up)
          den == b * pow2(dn)
          q   == [i \in 1..MantissaBits |->
                     IF i = 1 THEN 1 ELSE div_bit(num - den, den, i - 1)]
          rem == div_rem(num - den, den, MantissaBits - 1)
          roundUp == 2 * rem > den \/ (2 * rem = den /\ q[MantissaBits] = 1)
          m1  == IF roundUp THEN inc_bits(q) ELSE q
          e1  == dn - up - (MantissaBits - 1)
      IN  IF Len(m1) > MantissaBits
          THEN [s |-> sign(a), m |-> SubSeq(m1, 1, MantissaBits), e |-> e1 + 1]
          ELSE [s |-> sign(a), m |-> m1, e |-> e1]

\* x * r for a float x and an integer r >= 0 (float * int), rounded
float_mul(x, r) ==
    IF x.m = <<>> \/ r = 0 THEN FloatZero
    ELSE round_bits(x.s, mul_bits(x.m, r), x.e)

---------------------------------------------------------------------------
(* calculate_scout_positions *)

MaxThickness == 7
MaxRows == 25

ScoutDs(thick, z, rows) ==
    Dataset(TRUE, Some(DescScoutFace), thick, None, z, None, None, rows, TRUE, Some(1))

AlignDatasets ==
    { ScoutDs(t, z, r) :
        t \in {None} \cup { Some(n) : n \in (0..MaxThickness) \cup {400} },
        z \in {None, Some(50), Some(-20)},
        r \in {None} \cup { Some(n) : n \in (0..MaxRows) \cup {49, 200} } }

\* the spacing computed with // in place of /
calculate_scout_positions_floor_division(ds) ==
    IF ~Has(ds.SliceThickness) \/ ~Has(ds.ImagePositionZ) \/ ~Has(ds.Rows)
    THEN [raised |-> "AttributeError", value |-> None]
    ELSE LET scout_length == Val(ds.SliceThickness)
             z_start      == Val(ds.ImagePositionZ)
             z_end        == z_start - scout_length
             rows         == Val(ds.Rows)
         IN  IF rows = 0
             THEN [raised |-> "ZeroDivisionError", value |-> None]
             ELSE [raised |-> "",
                   value  |-> Some([z_start |-> z_start, z_end |-> z_end,
                                    z_spacing_corrected |->
                                        from_int(scout_length \div rows)])]

\* Lines 113-118: the value returned, or the exception raised.
calculate_scout_positions(ds) ==
    IF ~Has(ds.SliceThickness) \/ ~Has(ds.ImagePositionZ) \/ ~Has(ds.Rows)
    THEN [raised |-> "AttributeError", value |-> None]
    ELSE LET scout_length == Val(ds.SliceThickness)
             z_start      == Val(ds.ImagePositionZ)
             z_end        == z_start - scout_length
             rows         == Val(ds.Rows)
         IN  IF rows = 0
             THEN [raised |-> "ZeroDivisionError", value |-> None]
             ELSE [raised |-> "",
                   value  |-> Some([z_start |-> z_start, z_end |-> z_end,
                                    z_spacing_corrected |->
                                        float_div(scout_length, rows)])]

AlignIdle ==
    /\ scout_ds = None
    /\ align_status = "idle"
    /\ geometry = None

AlignInit ==
    /\ scout_ds \in { Some(ds) : ds \in AlignDatasets }
    /\ align_status = "called"
    /\ geometry = None

AlignReturn ==
    /\ align_status = "called"
    /\ LET r == calculate_scout_positions(Val(scout_ds))
       IN  /\ r.raised = ""
           /\ geometry' = r.value
    /\ align_status' = "returned"
    /\ UNCHANGED scout_ds
    /\ UNCHANGED <<buildVars, collectVars, mainVars>>

AlignRaise ==
    /\ align_status = "called"
    /\ LET r == calculate_scout_positions(Val(scout_ds))
       IN  /\ r.raised # ""
           /\ align_status' = r.raised
    /\ UNCHANGED <<scout_ds, geometry>>
    /\ UNCHANGED <<buildVars, collectVars, mainVars>>

---------------------------------------------------------------------------
(* dicom_ct_expo_preprocessor.py: is_dicom_file, extract_dicom_info *)

is_dicom_file(filename) == endswith(lower(filename), DcmExtension)

\* the keys of dicom_info, in insertion order
FieldNames ==
    <<"PatientID", "StudyDate", "Modality", "KVP", "XRayTubeCurrent",
      "ExposureTime", "SliceThickness", "Manufacturer">>

FieldSet == { FieldNames[i] : i \in 1..Len(FieldNames) }

\* dicom_data.get(key, 'Unknown')
get(header, key, default) == IF key \in DOMAIN header THEN header[key] ELSE default

\* lines 35-44
dicom_info(header) == [k \in FieldSet |-> get(header, k, "Unknown")]

FullHeader ==
    [k \in FieldSet |->
        CASE k = "PatientID" -> "P1" [] k = "StudyDate" -> "20241127"
          [] k = "Modality" -> "CT" [] k = "KVP" -> "120"
          [] k = "XRayTubeCurrent" -> "200" [] k = "ExposureTime" -> "500"
          [] k = "SliceThickness" -> "2" [] k = "Manufacturer" -> "ACME"]

PartialHeader == [k \in {"PatientID", "Modality"} |->
                     IF k = "PatientID" THEN "P2" ELSE "CT"]

EmptyHeader == [k \in {} |-> "Unknown"]

WalkFile(root, name, readable, header) ==
    [root |-> root, name |-> name, readable |-> readable, header |-> header]

\* what os.walk can yield: files with the extension in lower and in upper
\* case and without it, in the directory and in a subdirectory, readable or
\* not, with all, some or none of the eight attributes
WalkFiles ==
    { WalkFile("top",     <<"a", ".", "d", "c", "m">>, TRUE,  FullHeader),
      WalkFile("top/sub", <<"B", ".", "D", "C", "M">>, TRUE,  PartialHeader),
      WalkFile("top",     <<"e", ".", "d", "c", "m">>, TRUE,  EmptyHeader),
      WalkFile("top/sub", <<"c", ".", "d", "c", "m">>, FALSE, EmptyHeader),
      WalkFile("top",     <<"n", ".", "t", "x", "t">>, TRUE,  FullHeader),
      WalkFile("top",     <<"d", "c", "m">>,           FALSE, EmptyHeader) }

file_path(f) == <<f.root, f.name>>

CollectInit ==
    /\ walk \in SeqsUpTo(WalkFiles, MaxFiles)
    /\ pos = 0
    /\ dicom_info_list = <<>>
    /\ console = <<>>
    /\ output_csv = None
    /\ collect_status = "walking"

\* lines 24-25: a file without the extension
SkipOther ==
    /\ collect_status = "walking"
    /\ pos < Len(walk)
    /\ ~is_dicom_file(walk[pos + 1].name)
    /\ pos' = pos + 1
    /\ UNCHANGED <<walk, dicom_info_list, console, output_csv, collect_status>>
    /\ UNCHANGED <<buildVars, alignVars, mainVars>>

\* lines 28-47: the read succeeds
ReadFile ==
    /\ collect_status = "walking"
    /\ pos < Len(walk)
    /\ is_dicom_file(walk[pos + 1].name)
    /\ walk[pos + 1].readable
    /\ dicom_info_list' = Append(dicom_info_list, dicom_info(walk[pos + 1].header))
    /\ pos' = pos + 1
    /\ UNCHANGED <<walk, console, output_csv, collect_status>>
    /\ UNCHANGED <<buildVars, alignVars, mainVars>>

\* the read raises and nothing catches it: the walk ends there
SkipUnreadable_uncaught ==
    /\ collect_status = "walking"
    /\ pos < Len(walk)
    /\ is_dicom_file(walk[pos + 1].name)
    /\ ~walk[pos + 1].readable
    /\ collect_status' = "done"
    /\ pos' = pos + 1
    /\ UNCHANGED <<walk, dicom_info_list, console, output_csv>>
    /\ UNCHANGED <<buildVars, alignVars, mainVars>>

\* lines 48-49: the read raises
SkipUnreadable ==
    /\ collect_status = "walking"
    /\ pos < Len(walk)
    /\ is_dicom_file(walk[pos + 1].name)
    /\ ~walk[pos + 1].readable
    /\ console' = Append(console, <<"Could not read", file_path(walk[pos + 1])>>)
    /\ pos' = pos + 1
    /\ UNCHANGED <<walk, dicom_info_list, output_csv, collect_status>>
    /\ UNCHANGED <<buildVars, alignVars, mainVars>>

\* lines 52-57
WriteCsv ==
    /\ collect_status = "walking"
    /\ pos = Len(walk)
    /\ dicom_info_list # <<>>
    /\ output_csv' = Some([fieldnames |-> FieldNames, rows |-> dicom_info_list])
    /\ console' = Append(console, <<"Extracted DICOM data has been saved">>)
    /\ collect_status' = "done"
    /\ UNCHANGED <<walk, pos, dicom_info_list>>
    /\ UNCHANGED <<buildVars, alignVars, mainVars>>

\* lines 58-59
NoValidFiles ==
    /\ collect_status = "walking"
    /\ pos = Len(walk)
    /\ dicom_info_list = <<>>
    /\ console' = Append(console, <<"No valid DICOM files were found">>)
    /\ collect_status' = "done"
    /\ UNCHANGED <<walk, pos, dicom_info_list, output_csv>>
    /\ UNCHANGED <<buildVars, alignVars, mainVars>>

---------------------------------------------------------------------------
(* dicom_scout_modulation_visualizer.py: plot_scoutview_with_modulation, main *)

\* the two columns built one by one, which an empty list yields as well
zip_star_columns(d) ==
    <<[i \in 1..Len(d) |-> d[i][1]], [i \in 1..Len(d) |-> d[i][2]]>>

\* zip(*intensity_data): one tuple per component of the pairs, none at all for
\* an empty list
zip_star(d) ==
    IF d = <<>> THEN <<>>
    ELSE <<[i \in 1..Len(d) |-> d[i][1]], [i \in 1..Len(d) |-> d[i][2]]>>

\* Lines 131-138, what precedes plt.figure: "" when the figure is reached,
\* else the exception that ends the call.
plot_scoutview_with_modulation(ds, intensity) ==
    LET geom == calculate_scout_positions(ds)
    IN  IF geom.raised # "" THEN geom.raised                     \* line 131
        ELSE IF ~Has(ds.PixelSpacingCol) THEN "AttributeError"   \* line 133
        ELSE IF Len(zip_star(intensity)) # 2 THEN "ValueError"   \* line 138
        ELSE ""

FolderFile(name, ds) == [name |-> name, ds |-> ds]

\* what the selected folder can hold
FolderFiles ==
    { FolderFile(<<"s", ".", "d", "c", "m">>, ScoutDs(Some(400), Some(50), Some(200))),
      FolderFile(<<"p", ".", "d", "c", "m">>,
                 Dataset(TRUE, Some(DescProfil), Some(400), None, Some(50), None, None,
                         Some(0), TRUE, Some(1))),
      FolderFile(<<"1", ".", "d", "c", "m">>,
                 SliceDs(Some(DescHelical), Some(2), None, Some(100), Some(200), Some(1))),
      FolderFile(<<"2", ".", "d", "c", "m">>,
                 SliceDs(None, Some(2), None, Some(100), Some(100), Some(1))),
      FolderFile(<<"3", ".", "d", "c", "m">>,
                 SliceDs(Some(DescHelical), None, None, Some(100), Some(200), Some(1))),
      FolderFile(<<"S", ".", "D", "C", "M">>, ScoutDs(Some(400), Some(50), Some(200))),
      FolderFile(<<"h", ".", "d", "c", "m">>,
                 Dataset(TRUE, Some(DescScoutFace), Some(400), None, Some(50), None,
                         None, Some(200), FALSE, Some(1))),
      FolderFile(<<"c", ".", "d", "c", "m">>, CorruptDs) }

datasets(files) == [i \in 1..Len(files) |-> files[i].ds]

MainInit ==
    /\ dicom_folder \in {None} \cup { Some(l) : l \in SeqsUpTo(FolderFiles, MaxFiles) }
    /\ pc = "start"
    /\ main_files = <<>>
    /\ scout_files = <<>>
    /\ scout_dses = <<>>
    /\ intensity_data = None
    /\ plot_i = 0
    /\ rendered = 0
    /\ error = None

\* lines 159-160: the dialog was cancelled
NoFolder ==
    /\ pc = "start"
    /\ dicom_folder = None
    /\ pc' = "failed"
    /\ error' = Some("FileNotFoundError")
    /\ UNCHANGED <<dicom_folder, main_files, scout_files, scout_dses, intensity_data,
                   plot_i, rendered>>
    /\ UNCHANGED <<buildVars, alignVars, collectVars>>

\* line 162
ListFolder ==
    /\ pc = "start"
    /\ dicom_folder # None
    /\ main_files' = SelectSeq(Val(dicom_folder), LAMBDA f : endswith(f.name, DcmExtension))
    /\ pc' = "scouts"
    /\ UNCHANGED <<dicom_folder, scout_files, scout_dses, intensity_data, plot_i,
                   rendered, error>>
    /\ UNCHANGED <<buildVars, alignVars, collectVars>>

\* line 164, a file pydicom cannot read
FindScoutsRaise ==
    /\ pc = "scouts"
    /\ \E i \in 1..Len(main_files) : ~main_files[i].ds.Readable
    /\ pc' = "failed"
    /\ error' = Some("InvalidDicomError")
    /\ UNCHANGED <<dicom_folder, main_files, scout_files, scout_dses, intensity_data,
                   plot_i, rendered>>
    /\ UNCHANGED <<buildVars, alignVars, collectVars>>

\* lines 164-167, no scout among the files
NoScouts ==
    /\ pc = "scouts"
    /\ \A i \in 1..Len(main_files) : main_files[i].ds.Readable
    /\ SelectSeq(main_files, LAMBDA f : is_scout(f.ds)) = <<>>
    /\ pc' = "failed"
    /\ error' = Some("FileNotFoundError")
    /\ UNCHANGED <<dicom_folder, main_files, scout_files, scout_dses, intensity_data,
                   plot_i, rendered>>
    /\ UNCHANGED <<buildVars, alignVars, collectVars>>

\* lines 164-174: the scouts are found and loaded (load_scoutview re-reads
\* each, finds it a scout again, and builds its pixel array)
LoadScouts ==
    /\ pc = "scouts"
    /\ \A i \in 1..Len(main_files) : main_files[i].ds.Readable
    /\ LET found == SelectSeq(main_files, LAMBDA f : is_scout(f.ds))
       IN  /\ found # <<>>
           /\ \A i \in 1..Len(found) : found[i].ds.PixelData
           /\ scout_files' = found
           /\ scout_dses' = datasets(found)
    /\ pc' = "extract"
    /\ UNCHANGED <<dicom_folder, main_files, intensity_data, plot_i, rendered, error>>
    /\ UNCHANGED <<buildVars, alignVars, collectVars>>

\* lines 164-172: a scout whose pixel array cannot be built
LoadScoutsRaise ==
    /\ pc = "scouts"
    /\ \A i \in 1..Len(main_files) : main_files[i].ds.Readable
    /\ LET found == SelectSeq(main_files, LAMBDA f : is_scout(f.ds))
       IN  /\ found # <<>>
           /\ \E i \in 1..Len(found) : ~found[i].ds.PixelData
           /\ scout_files' = found
    /\ pc' = "failed"
    /\ error' = Some("AttributeError")
    /\ UNCHANGED <<dicom_folder, main_files, scout_dses, intensity_data, plot_i,
                   rendered>>
    /\ UNCHANGED <<buildVars, alignVars, collectVars>>

\* line 176, extract_dicom_data returns
Extract ==
    /\ pc = "extract"
    /\ extract_dicom_data(datasets(main_files)) # None
    /\ intensity_data' = extract_dicom_data(datasets(main_files))
    /\ pc' = "plot"
    /\ UNCHANGED <<dicom_folder, main_files, scout_files, scout_dses, plot_i, rendered,
                   error>>
    /\ UNCHANGED <<buildVars, alignVars, collectVars>>

\* line 176, extract_dicom_data raises
ExtractRaise ==
    /\ pc = "extract"
    /\ extract_dicom_data(datasets(main_files)) = None
    /\ pc' = "failed"
    /\ error' = Some("AttributeError")
    /\ UNCHANGED <<dicom_folder, main_files, scout_files, scout_dses, intensity_data,
                   plot_i, rendered>>
    /\ UNCHANGED <<buildVars, alignVars, collectVars>>

\* lines 178-179, the next scout is plotted: the figure is created and shown
PlotShow ==
    /\ pc = "plot"
    /\ plot_i < Len(scout_dses)
    /\ plot_scoutview_with_modulation(scout_dses[plot_i + 1], Val(intensity_data)) = ""
    /\ plot_i' = plot_i + 1
    /\ rendered' = rendered + 1
    /\ UNCHANGED <<dicom_folder, pc, main_files, scout_files, scout_dses,
                   intensity_data, error>>
    /\ UNCHANGED <<buildVars, alignVars, collectVars>>

\* lines 178-179, the plot function raises before the figure
PlotRaise ==
    /\ pc = "plot"
    /\ plot_i < Len(scout_dses)
    /\ plot_scoutview_with_modulation(scout_dses[plot_i + 1], Val(intensity_data)) # ""
    /\ plot_i' = plot_i + 1
    /\ pc' = "failed"
    /\ error' = Some(plot_scoutview_with_modulation(scout_dses[plot_i + 1],
                                                    Val(intensity_data)))
    /\ UNCHANGED <<dicom_folder, main_files, scout_files, scout_dses, intensity_data,
                   rendered>>
    /\ UNCHANGED <<buildVars, alignVars, collectVars>>

\* the loop of line 178 is exhausted: main returns
MainReturn ==
    /\ pc = "plot"
    /\ plot_i = Len(scout_dses)
    /\ pc' = "done"
    /\ UNCHANGED <<dicom_folder, main_files, scout_files, scout_dses, intensity_data,
                   plot_i, rendered, error>>
    /\ UNCHANGED <<buildVars, alignVars, collectVars>>

---------------------------------------------------------------------------
(* Specifications *)

CollectIdle ==
    /\ walk = <<>>
    /\ pos = 0
    /\ dicom_info_list = <<>>
    /\ console = <<>>
    /\ output_csv = None
    /\ collect_status = "idle"

MainIdle ==
    /\ dicom_folder = None
    /\ pc = "idle"
    /\ main_files = <<>>
    /\ scout_files = <<>>
    /\ scout_dses = <<>>
    /\ intensity_data = None
    /\ plot_i = 0
    /\ rendered = 0
    /\ error = None

\* extract_dicom_data on every list of at most MaxFiles datasets
Init == BuildInit /\ AlignIdle /\ CollectIdle /\ MainIdle
Next == Iterate \/ Raise \/ Return
Spec == Init /\ [][Next]_vars

\* calculate_scout_positions on every scout dataset
InitAlign == BuildIdle /\ AlignInit /\ CollectIdle /\ MainIdle
NextAlign == AlignReturn \/ AlignRaise
SpecAlign == InitAlign /\ [][NextAlign]_vars

\* extract_dicom_info on every walk of at most MaxFiles files
InitCollect == BuildIdle /\ AlignIdle /\ CollectInit /\ MainIdle
NextCollect == SkipOther \/ ReadFile \/ SkipUnreadable \/ WriteCsv \/ NoValidFiles
SpecCollect == InitCollect /\ [][NextCollect]_vars

\* main on a cancelled dialog and on every folder of at most MaxFiles files
InitMain == BuildIdle /\ AlignIdle /\ CollectIdle /\ MainInit
NextMain ==
    \/ NoFolder \/ ListFolder \/ FindScoutsRaise \/ NoScouts \/ LoadScouts
    \/ LoadScoutsRaise
    \/ Extract \/ ExtractRaise \/ PlotShow \/ PlotRaise \/ MainReturn
SpecMain == InitMain /\ [][NextMain]_vars

---------------------------------------------------------------------------
(* Properties of extract_dicom_data, checked under Spec *)

\* The classes of the data model, read off the dataset and not off is_scout.
IsReference(ds) ==
    ds.Readable /\ Has(ds.SeriesDescription)
    /\ Val(ds.SeriesDescription) \in {DescScoutFace, DescProfil}
IsSlice(ds) == ds.Readable /\ Has(ds.SeriesDescription) /\ ~IsReference(ds)
IsUnclassifiable(ds) == ds.Readable /\ ~Has(ds.SeriesDescription)

\* a record with every attribute the loop reads of a slice
IsComplete(ds) ==
    Has(ds.SliceThickness) /\ Has(ds.ImagePositionZ)
    /\ Has(ds.XRayTubeCurrent) /\ Has(ds.RevolutionTime)

Count(s, P(_)) == Cardinality({ i \in 1..Len(s) : P(s[i]) })

BagOfSeq(s) ==
    [x \in { s[i] : i \in 1..Len(s) } |-> Cardinality({ i \in 1..Len(s) : s[i] = x })]

NonIncreasing(s) == \A i \in 1..(Len(s) - 1) : s[i][1] >= s[i + 1][1]

\* the sum of the thicknesses of records from..to
RECURSIVE ThicknessSum(_, _, _)
ThicknessSum(s, from, to) ==
    IF from > to THEN 0
    ELSE Val(s[to].SliceThickness) + ThicknessSum(s, from, to - 1)

\* Z0 minus the thicknesses of slices 2..k, and the exposure of slice k
ExpectedPair(s, k) ==
    << Val(s[1].ImagePositionZ) - ThicknessSum(s, 2, k),
       Val(s[k].XRayTubeCurrent) * Val(s[k].RevolutionTime) >>

ExpectedPairs(s, n) == [k \in 1..n |-> ExpectedPair(s, k)]

AllCompleteSlices ==
    /\ Len(dicom_files) >= 1
    /\ \A i \in 1..Len(dicom_files) :
           IsSlice(dicom_files[i]) /\ IsComplete(dicom_files[i])

\* C1: on N >= 1 complete Slice records the call never raises, the pairs are
\* accumulated in input order as (Z0 - thicknesses of slices 2..k, exposure of
\* slice k), and the profile returned is that multiset of pairs arranged in
\* non-increasing order of position.
C1_Accumulation ==
    AllCompleteSlices =>
        /\ status # "raised"
        /\ data = ExpectedPairs(dicom_files, idx)
        /\ status = "returned" =>
              /\ BagOfSeq(Val(result)) = BagOfSeq(ExpectedPairs(dicom_files, Len(dicom_files)))
              /\ NonIncreasing(Val(result))

C1_Witness ==
    /\ AllCompleteSlices
    /\ status = "returned"
    /\ Len(Val(result)) = 3
    /\ Val(result)[1][1] > Val(result)[3][1]
    /\ Val(result) # data

\* the permutation of 1..Len(s) that orders s by descending position and,
\* among equal positions, by the order Before on the indices
OrderedBy(s, Before(_, _)) ==
    CHOOSE p \in [1..Len(s) -> 1..Len(s)] :
        /\ \A i, j \in 1..Len(s) : i # j => p[i] # p[j]
        /\ \A i \in 1..(Len(s) - 1) :
               \/ s[p[i]][1] > s[p[i + 1]][1]
               \/ s[p[i]][1] = s[p[i + 1]][1] /\ Before(p[i], p[i + 1])

Permuted(s, p) == [i \in 1..Len(s) |-> s[p[i]]]

\* the claim of C2 as made: equal positions keep their input order (a stable
\* descending sort).  The code does not behave so.
C2_TiesKeepInputOrder ==
    status = "returned" =>
        Val(result) = Permuted(data, OrderedBy(data, LAMBDA i, j : i < j))

\* C2: the profile returned is in descending order of position, and pairs of
\* equal position appear in the reverse of their input order (the reverse of
\* a stable ascending sort).
C2_TiesReverseInputOrder ==
    status = "returned" =>
        Val(result) = Permuted(data, OrderedBy(data, LAMBDA i, j : i > j))

C2_Witness ==
    /\ status = "returned"
    /\ Len(data) = 3
    /\ data[1][1] = data[3][1]
    /\ data[1][2] # data[3][2]
    /\ data[2][1] < data[1][1]
    /\ Val(result) = <<data[3], data[1], data[2]>>

\* the claim of C3 as made: a record without SeriesDescription adds no pair
\* and does not touch the accumulator, so that the profile has one pair per
\* Slice record.  The code does not behave so.
C3_UnclassifiableExcluded ==
    /\ status = "returned" => Len(Val(result)) = Count(dicom_files, IsSlice)
    /\ status # "raised" => Len(data) = Count(SubSeq(dicom_files, 1, idx), IsSlice)
    /\ (idx >= 1 /\ IsUnclassifiable(dicom_files[idx])) => status # "raised"

NotReference(ds) == ~IsReference(ds)

\* C3: every record that is not a Reference is processed as a slice, a record
\* without SeriesDescription included: it adds one pair and initialises or
\* decrements the accumulator when it is complete, and raises when it lacks
\* SliceThickness; the profile returned has one pair per record that is not a
\* Reference.
C3_UnclassifiableIsSlice ==
    /\ status = "returned" => Len(Val(result)) = Count(dicom_files, NotReference)
    /\ status # "raised" =>
           Len(data) = Count(SubSeq(dicom_files, 1, idx), NotReference)
    /\ (idx >= 1 /\ IsUnclassifiable(dicom_files[idx])) =>
           /\ status = "raised" <=>
                  \/ ~Has(dicom_files[idx].SliceThickness)
                  \/ ~Has(dicom_files[idx].XRayTubeCurrent)
                  \/ ~Has(dicom_files[idx].RevolutionTime)
                  \/ Len(data) = 0 /\ ~Has(dicom_files[idx].ImagePositionZ)
           /\ status # "raised" =>
                  /\ data[Len(data)][2] = Val(dicom_files[idx].XRayTubeCurrent)
                                            * Val(dicom_files[idx].RevolutionTime)
                  /\ current_position = Some(data[Len(data)][1])
                  /\ Len(data) = 1 => data[1][1] = Val(dicom_files[idx].ImagePositionZ)
                  /\ Len(data) > 1 =>
                         data[Len(data)][1] = data[Len(data) - 1][1]
                                                - Val(dicom_files[idx].SliceThickness)

C3_Witness ==
    /\ status = "returned"
    /\ Len(dicom_files) = 3
    /\ IsSlice(dicom_files[1])
    /\ IsUnclassifiable(dicom_files[2])
    /\ IsReference(dicom_files[3])
    /\ Len(Val(result)) = 2

\* the first record that is no Reference, can be read and lacks SliceThickness
LacksThickness(ds) == ds.Readable /\ ~IsReference(ds) /\ ~Has(ds.SliceThickness)

FirstLackingThickness ==
    CHOOSE i \in 1..Len(dicom_files) :
        /\ LacksThickness(dicom_files[i])
        /\ \A j \in 1..(i - 1) : ~LacksThickness(dicom_files[j])

\* C4: when a slice lacks SliceThickness the call never returns and yields no
\* profile, whole or partial; it raises at that record at the latest, and no
\* record after it is processed.
C4_MissingThicknessFatal ==
    Count(dicom_files, LacksThickness) >= 1 =>
        /\ status # "returned"
        /\ result = None
        /\ idx <= FirstLackingThickness
        /\ idx = FirstLackingThickness => status = "raised"
        /\ status = "running" => ENABLED (Iterate \/ Raise)

C4_Witness ==
    /\ Len(dicom_files) = 3
    /\ LacksThickness(dicom_files[2])
    /\ status = "raised"
    /\ idx = 2
    /\ Len(data) = 1
    /\ result = None

\* the records that are no References, in input order
Processed(s) == SelectSeq(s, NotReference)

\* C8: the exposure of every pair is XRayTubeCurrent * RevolutionTime of the
\* record the pair was made for, whatever the accumulator and the other
\* records hold, and the sort keeps it with the position computed for that
\* record.
C8_Exposure ==
    status # "raised" =>
        LET done == Processed(SubSeq(dicom_files, 1, idx))
        IN  /\ Len(data) = Len(done)
            /\ \A k \in 1..Len(data) :
                   data[k][2] = Val(done[k].XRayTubeCurrent) * Val(done[k].RevolutionTime)
            /\ status = "returned" =>
                   BagOfSeq(Val(result)) = BagOfSeq(ExpectedPairs(done, Len(done)))

C8_Witness ==
    /\ status = "returned"
    /\ Len(data) = 3
    /\ data[1][2] # data[2][2]
    /\ data[2][2] # data[3][2]
    /\ data[1][1] < data[2][1]
    /\ Val(result)[1] = data[2]

\* C9: Reference records have no effect: the call ends as it does on the
\* input with the Reference records removed, returning the same profile or
\* raising alike, also when a Reference comes first or lacks SliceThickness
\* or ImagePositionPatient.
C9_ReferencesSkipped ==
    status \in {"returned", "raised"} =>
        /\ result = extract_dicom_data(Processed(dicom_files))
        /\ status = "raised" <=> extract_dicom_data(Processed(dicom_files)) = None

C9_Witness ==
    /\ status = "returned"
    /\ Len(dicom_files) = 3
    /\ IsReference(dicom_files[1]) /\ ~Has(dicom_files[1].SliceThickness)
    /\ IsSlice(dicom_files[2])
    /\ IsReference(dicom_files[3]) /\ Has(dicom_files[3].SliceThickness)
    /\ Len(Val(result)) = 1

WithSpacing(s, v) == [i \in 1..Len(s) |-> [s[i] EXCEPT !.SpacingBetweenSlices = v]]

\* C10: SpacingBetweenSlices has no influence: the call ends as it does on
\* the input with the attribute removed from, or set to another value in,
\* every record, and a missing SpacingBetweenSlices alone never makes it
\* raise.
C10_SpacingIgnored ==
    status \in {"returned", "raised"} =>
        /\ result = extract_dicom_data(WithSpacing(dicom_files, None))
        /\ result = extract_dicom_data(WithSpacing(dicom_files, Some(7)))

C10_Witness ==
    /\ status = "returned"
    /\ Len(data) = 3
    /\ \E i \in 2..3 :
           /\ Has(dicom_files[i].SpacingBetweenSlices)
           /\ dicom_files[i].SpacingBetweenSlices # dicom_files[i].SliceThickness
    /\ \E i \in 1..3 : ~Has(dicom_files[i].SpacingBetweenSlices)

---------------------------------------------------------------------------
(* Properties of extract_dicom_info, checked under SpecCollect *)

Matching(s) == SelectSeq(s, LAMBDA f : is_dicom_file(f.name))
ReadOk(s) == SelectSeq(Matching(s), LAMBDA f : f.readable)
ReadFailed(s) == SelectSeq(Matching(s), LAMBDA f : ~f.readable)
SkipsLogged == SelectSeq(console, LAMBDA line : line[1] = "Could not read")

\* C5: every file is visited; a file with the extension whose read fails is
\* logged once and skipped, and the walk goes on; at the end the table has
\* one row per file with the extension that was read, in traversal order,
\* and the output file is written exactly when there is at least one row,
\* with those rows; otherwise "no valid files" is printed and no file is
\* created.
C5_BatchCollector ==
    LET seen == SubSeq(walk, 1, pos)
    IN  /\ dicom_info_list = [i \in 1..Len(ReadOk(seen)) |->
                                 dicom_info(ReadOk(seen)[i].header)]
        /\ SkipsLogged = [i \in 1..Len(ReadFailed(seen)) |->
                             <<"Could not read", file_path(ReadFailed(seen)[i])>>]
        /\ collect_status = "walking" => output_csv = None
        /\ collect_status = "done" =>
               /\ pos = Len(walk)
               /\ output_csv # None <=> Len(ReadOk(walk)) >= 1
               /\ output_csv # None =>
                      /\ Val(output_csv).rows = dicom_info_list
                      /\ Val(output_csv).fieldnames = FieldNames
               /\ output_csv = None =>
                      console[Len(console)] = <<"No valid DICOM files were found">>

C5_Witness ==
    /\ collect_status = "done"
    /\ Len(walk) = 3
    /\ is_dicom_file(walk[1].name) /\ ~walk[1].readable
    /\ Len(ReadOk(walk)) = 2
    /\ Len(SkipsLogged) = 1
    /\ output_csv # None
    /\ Len(Val(output_csv).rows) = 2

---------------------------------------------------------------------------
(* Properties of calculate_scout_positions, checked under SpecAlign *)

ds0 == Val(scout_ds)
AlignComplete == Has(ds0.SliceThickness) /\ Has(ds0.ImagePositionZ) /\ Has(ds0.Rows)

\* the claim of C6 as made: rowSpacing * rows = sliceThickness for every
\* rows >= 1, the product being the float product.  The quotient is rounded,
\* and the code does not behave so.
C6_ProductIsThickness ==
    (AlignComplete /\ align_status # "called") =>
        IF Val(ds0.Rows) >= 1
        THEN /\ align_status = "returned"
             /\ Val(geometry).z_start = Val(ds0.ImagePositionZ)
             /\ Val(geometry).z_end = Val(geometry).z_start - Val(ds0.SliceThickness)
             /\ float_mul(Val(geometry).z_spacing_corrected, Val(ds0.Rows))
                    = from_int(Val(ds0.SliceThickness))
        ELSE align_status # "returned" /\ geometry = None

Clip(n) == IF n > 1024 THEN 1024 ELSE IF n < -1024 THEN -1024 ELSE n

\* the integer p - x of two long integers given as limbs of the same number,
\* exact when it is small and clipped to +-1024 otherwise
RECURSIVE LimbsDiff(_, _, _)
LimbsDiff(p, x, acc) ==
    IF p = <<>> THEN acc
    ELSE LimbsDiff(Tail(p), Tail(x), Clip(acc * LimbBase + (Head(p) - Head(x))))

PadLimbs(l, n) == [i \in 1..(n - Len(l)) |-> 0] \o l

\* x is a float nearest to t / rows: |x * rows - t| <= rows * ulp(x) / 2, in
\* exact integer arithmetic on m * rows and |t| * 2^(-e)
IsNearestQuotient(x, t, rows) ==
    IF t = 0 THEN x = FloatZero
    ELSE /\ x.s = sign(t)
         /\ Len(x.m) = MantissaBits
         /\ x.m[1] = 1
         /\ x.e <= 0
         /\ LET p == limbs_mul(bits_to_limbs(x.m), rows, 0)
                v == bits_to_limbs(to_bits(abs(t)) \o zeros(-x.e))
                n == IF Len(p) > Len(v) THEN Len(p) ELSE Len(v)
            IN  2 * abs(LimbsDiff(PadLimbs(p, n), PadLimbs(v, n), 0)) <= rows

\* C6: with rows >= 1 the call returns zStart = imagePositionZ, zEnd =
\* zStart - sliceThickness and rowSpacing = the float nearest to
\* sliceThickness / rows; rowSpacing * rows = sliceThickness when rows divides
\* sliceThickness (400, 50, 200 gives (50, -350, 2)); with rows = 0 it raises
\* and returns no geometry.
C6_NearestQuotient ==
    (AlignComplete /\ align_status # "called") =>
        IF Val(ds0.Rows) >= 1
        THEN /\ align_status = "returned"
             /\ Val(geometry).z_start = Val(ds0.ImagePositionZ)
             /\ Val(geometry).z_end = Val(geometry).z_start - Val(ds0.SliceThickness)
             /\ IsNearestQuotient(Val(geometry).z_spacing_corrected,
                                  Val(ds0.SliceThickness), Val(ds0.Rows))
             /\ Val(ds0.SliceThickness) % Val(ds0.Rows) = 0 =>
                    /\ Val(geometry).z_spacing_corrected
                           = from_int(Val(ds0.SliceThickness) \div Val(ds0.Rows))
                    /\ float_mul(Val(geometry).z_spacing_corrected, Val(ds0.Rows))
                           = from_int(Val(ds0.SliceThickness))
             /\ (Val(ds0.SliceThickness) = 400 /\ Val(ds0.ImagePositionZ) = 50
                 /\ Val(ds0.Rows) = 200) =>
                    geometry = Some([z_start |-> 50, z_end |-> -350,
                                     z_spacing_corrected |-> from_int(2)])
        ELSE align_status = "ZeroDivisionError" /\ geometry = None

C6_Witness ==
    /\ align_status = "returned"
    /\ Val(ds0.SliceThickness) = 7
    /\ Val(ds0.Rows) = 25
    /\ float_mul(Val(geometry).z_spacing_corrected, 25) # from_int(7)
    /\ Val(geometry).z_end = Val(ds0.ImagePositionZ) - 7

---------------------------------------------------------------------------
(* Properties of main, checked under SpecMain *)

\* the records of the folder: the files main lists
FolderRecords ==
    IF dicom_folder = None THEN <<>>
    ELSE datasets(SelectSeq(Val(dicom_folder), LAMBDA f : endswith(f.name, DcmExtension)))

=============================================================================
